---- MODULE Spec2Model ----
(***************************************************************************)
(* State-machine model of the wind-fleet dashboard's two stateful          *)
(* controllers:                                                            *)
(*   - GenieChat (client/src/components/SettingsDropdown.tsx, 310-415):    *)
(*     message list, input buffer, isLoading guard, conversationId, error  *)
(*     banner, reveal set, and the suspended sendMessage continuations.    *)
(*   - the fleet-map selection variants ProperFleetMap, WorkingFleetMap    *)
(*     and InteractiveFleetMap, and the select-only SimpleFleetMap and     *)
(*     FleetMap.                                                           *)
(*   - TurbineFleetDashboard (unnamed/part_004): the polling effect and    *)
(*     the four datasets it stores.                                        *)
(*   - NotificationsDropdown: the notification list and its three          *)
(*     handlers.                                                           *)
(* Latitudes/longitudes are kept in tenths of a degree (35.2 -> 352).      *)
(* Texts are sequences of one-character strings so trim() is computed.     *)
(***************************************************************************)
EXTENDS Integers, Sequences, FiniteSets, TLC

VARIABLES
    \* ---- GenieChat React state ----
    messages,        \* useState<Message[]>
    input,           \* useState('')
    isLoading,       \* useState(false)
    conversationId,  \* useState<string | null>(null)
    error,           \* useState<string | null>(null)
    showSqlFor,      \* useState<Set<string>>
    \* ---- GenieChat environment ----
    now,             \* value Date.now() returns
    pending,         \* suspended sendMessage continuations (awaiting fetch)
    requests,        \* bodies of the fetch calls issued so far
    chatEvent,       \* last chat handler that ran, with its outcome
    \* ---- fleet map ----
    variant,         \* which map component is mounted
    selectedFarm,    \* useState<string | null>(null)
    mapCenter,       \* ProperFleetMap useState / WorkingFleetMap Leaflet view
    mapZoom,
    markerIcons,     \* WorkingFleetMap: icon size held by each Leaflet marker
    mapReady,        \* WorkingFleetMap: mapRef.current set by the mount effect
    clicks,          \* the last two selection clicks, oldest first
    \* ---- TurbineFleetDashboard ----
    dashPhase,       \* "rendered" | "mounted" (interval set) | "unmounted"
    kpis,            \* useState(null): number of the cycle whose data is stored
    assistantSummary,
    energyData,
    turbines,
    cycles,          \* the fetchData invocations, in starting order
    latest,          \* per dataset, the latest-started cycle that delivered it
    dashEvent,       \* last dashboard step
    \* ---- NotificationsDropdown ----
    notifications,   \* useState<Notification[]>
    notifEvent       \* last notification handler that ran, and the one before

chatVars == <<messages, input, isLoading, conversationId, error, showSqlFor,
              now, pending, requests, chatEvent>>
mapVars == <<variant, selectedFarm, mapCenter, mapZoom, markerIcons, mapReady, clicks>>
dashVars == <<dashPhase, kpis, assistantSummary, energyData, turbines,
              cycles, latest, dashEvent>>
notifVars == <<notifications, notifEvent>>
vars == <<messages, input, isLoading, conversationId, error, showSqlFor,
          now, pending, requests, chatEvent,
          variant, selectedFarm, mapCenter, mapZoom, markerIcons, mapReady, clicks,
          dashPhase, kpis, assistantSummary, energyData, turbines,
          cycles, latest, dashEvent,
          notifications, notifEvent>>

\* what the handlers of one component leave alone: the other components
outsideChat == <<mapVars, dashVars, notifVars>>
outsideMap == <<chatVars, dashVars, notifVars>>
outsideDash == <<chatVars, mapVars, notifVars>>
outsideNotif == <<chatVars, mapVars, dashVars>>

\* JavaScript null / undefined
NULL == "<null>"

(***************************************************************************)
(* Bounds                                                                  *)
(***************************************************************************)
MaxSends == 2
MaxTicks == 1
\* fetchData invocations of the dashboard (the mount call and interval firings)
MaxCycles == 2

(***************************************************************************)
(* GenieChat                                                               *)
(***************************************************************************)
\* Date.now() at mount; any value above the seeded id '1'
T0 == 1000

\* JavaScript truthiness of a string | null | undefined
Truthy(s) == s # NULL /\ s # ""

IsSpace(c) == c = " "

RECURSIVE TrimStart(_)
TrimStart(t) ==
    IF t = <<>> THEN <<>>
    ELSE IF IsSpace(Head(t)) THEN TrimStart(Tail(t)) ELSE t

RECURSIVE TrimEnd(_)
TrimEnd(t) ==
    IF t = <<>> THEN <<>>
    ELSE IF IsSpace(t[Len(t)]) THEN TrimEnd(SubSeq(t, 1, Len(t) - 1)) ELSE t

\* String.prototype.trim
Trim(t) == TrimEnd(TrimStart(t))

\* texts the user can type into the input box
Texts == { <<>>, <<" ">>, <<" ", "a", " ">> }

\* the "Try asking" buttons
suggestedQuestions == { <<"q">> }

\* prev.slice(0, -1)
SliceDropLast(s) == IF s = <<>> THEN <<>> ELSE SubSeq(s, 1, Len(s) - 1)

initialMessages ==
    << [id |-> "1", content |-> <<"h">>, sender |-> "assistant",
        timestamp |-> "mount", status |-> NULL, sql |-> NULL, results |-> NULL] >>

InputDisabled_never == FALSE

\* disabled={isLoading} on the text input
InputDisabled == isLoading

\* disabled={!input.trim() || isLoading} on the send button
SendButtonDisabled == Trim(input) = <<>> \/ isLoading

Rejected_never(inp, loading) == FALSE

Rejected_noTrim(inp, loading) == inp = <<>> \/ loading

\* the early return of sendMessage
Rejected(inp, loading) == Trim(inp) = <<>> \/ loading

\* the ways the awaited request can end
Responses ==
    { [kind |-> k, conversation_id |-> NULL, message_id |-> NULL,
       content |-> <<>>, timestamp |-> NULL, sql_query |-> NULL,
       query_results |-> NULL]
        : k \in {"transport_error", "http_error", "bad_json"} }
    \cup
    { [kind |-> "ok", conversation_id |-> c, message_id |-> m,
       content |-> <<"r">>, timestamp |-> "2025-01-01T00:00:00Z",
       sql_query |-> q.sql, query_results |-> q.res]
        : c \in {NULL, "", "c1", "c2"},
          m \in {NULL, "m1"},
          q \in { [sql |-> NULL, res |-> NULL], [sql |-> "SELECT", res |-> "rows"] } }

ChatInit ==
    /\ messages = initialMessages
    /\ input = <<>>
    /\ isLoading = FALSE
    /\ conversationId = NULL
    /\ error = NULL
    /\ showSqlFor = {}
    /\ now = T0
    /\ pending = <<>>
    /\ requests = <<>>
    /\ chatEvent = [op |-> "mount"]

\* time passes between events
Tick ==
    /\ now < T0 + MaxTicks
    /\ now' = now + 1
    /\ UNCHANGED <<messages, input, isLoading, conversationId, error, showSqlFor,
                   pending, requests, chatEvent>>
    /\ UNCHANGED outsideChat

\* onChange={(e) => setInput(e.target.value)}
TypeInput(t) ==
    /\ ~InputDisabled
    /\ input' = t
    /\ chatEvent' = [op |-> "setInput"]
    /\ UNCHANGED <<messages, isLoading, conversationId, error, showSqlFor,
                   now, pending, requests>>
    /\ UNCHANGED outsideChat

\* onClick={() => setInput(question)}, rendered while messages.length === 1
ClickSuggestion(q) ==
    /\ Len(messages) = 1
    /\ input' = q
    /\ chatEvent' = [op |-> "setInput"]
    /\ UNCHANGED <<messages, isLoading, conversationId, error, showSqlFor,
                   now, pending, requests>>
    /\ UNCHANGED outsideChat

RequestBody_noConversation(userMessage, cid) ==
    [content |-> userMessage.content, conversation_id |-> NULL]

\* body: JSON.stringify({content: userMessage.content,
\*                       conversation_id: conversationId})
RequestBody(userMessage, cid) ==
    [content |-> userMessage.content, conversation_id |-> cid]

ErrorOnAccept_kept(prev) == prev

\* setError(null)
ErrorOnAccept(prev) == NULL

\* sendMessage up to the await
SendMessage ==
    /\ UNCHANGED outsideChat
    /\ IF Rejected(input, isLoading)
       THEN /\ chatEvent' = [op |-> "sendMessage", accepted |-> FALSE,
                             text |-> input, wasLoading |-> isLoading]
            /\ UNCHANGED <<messages, input, isLoading, conversationId, error,
                           showSqlFor, now, pending, requests>>
       ELSE LET userMessage ==
                    [id |-> ToString(now), content |-> Trim(input), sender |-> "user",
                     timestamp |-> ToString(now), status |-> "sending",
                     sql |-> NULL, results |-> NULL]
                body == RequestBody(userMessage, conversationId)
            IN /\ Len(requests) < MaxSends
               /\ messages' = Append(messages, userMessage)
               /\ input' = <<>>
               /\ isLoading' = TRUE
               /\ error' = ErrorOnAccept(error)
               /\ requests' = Append(requests, body)
               /\ pending' = Append(pending,
                                    [userMessage |-> userMessage,
                                     conversationId |-> conversationId,
                                     lenBefore |-> Len(messages)])
               /\ chatEvent' = [op |-> "sendMessage", accepted |-> TRUE,
                                text |-> input, wasLoading |-> isLoading]
               /\ UNCHANGED <<conversationId, showSqlFor, now>>

\* data.message_id || Date.now().toString()
AssistantId(data, clock) ==
    IF Truthy(data.message_id) THEN data.message_id ELSE ToString(clock)

\* the assistantMessage literal
AssistantMessage(data, clock) ==
    [id |-> AssistantId(data, clock), content |-> data.content,
     sender |-> "assistant", timestamp |-> data.timestamp, status |-> NULL,
     sql |-> data.sql_query, results |-> data.query_results]

ConversationIdAfter_always(closureId, current, data) ==
    IF Truthy(data.conversation_id) THEN data.conversation_id ELSE current

ConversationIdAfter_unchecked(closureId, current, data) ==
    IF ~Truthy(closureId) THEN data.conversation_id ELSE current

\* if (!conversationId && data.conversation_id) setConversationId(...)
ConversationIdAfter(closureId, current, data) ==
    IF ~Truthy(closureId) /\ Truthy(data.conversation_id)
    THEN data.conversation_id ELSE current

MessagesAfterSuccess_replyFirst(prev, userMessage, assistantMessage) ==
    SliceDropLast(prev)
        \o << assistantMessage, [userMessage EXCEPT !.status = "sent"] >>

MessagesAfterSuccess_noSlice(prev, userMessage, assistantMessage) ==
    prev \o << [userMessage EXCEPT !.status = "sent"], assistantMessage >>

MessagesAfterSuccess_dropsTwo(prev, userMessage, assistantMessage) ==
    SliceDropLast(SliceDropLast(prev))
        \o << [userMessage EXCEPT !.status = "sent"], assistantMessage >>

\* setMessages(prev => [...prev.slice(0, -1), {...userMessage, status: 'sent'},
\*                      assistantMessage])
MessagesAfterSuccess(prev, userMessage, assistantMessage) ==
    SliceDropLast(prev)
        \o << [userMessage EXCEPT !.status = "sent"], assistantMessage >>

MessagesAfterFailure_keepsSending(prev, userMessage) == prev

MessagesAfterFailure_resetsAll(prev, userMessage) ==
    [i \in 1..Len(prev) |->
        IF prev[i].sender = "user" THEN [prev[i] EXCEPT !.status = "error"]
        ELSE prev[i]]

\* setMessages(prev => [...prev.slice(0, -1), {...userMessage, status: 'error'}])
MessagesAfterFailure(prev, userMessage) ==
    SliceDropLast(prev) \o << [userMessage EXCEPT !.status = "error"] >>

LoadingAfter_onlyOnSuccess(ok) == ~ok

\* finally { setIsLoading(false) }
LoadingAfter(ok) == FALSE

\* sendMessage after the await: the rest of the try block when the response
\* is usable, the catch block otherwise, then the finally block
Resolve(i, data) ==
    /\ i \in 1..Len(pending)
    /\ LET k == pending[i]
           ok == data.kind = "ok"
       IN /\ IF ok
             THEN /\ conversationId' =
                        ConversationIdAfter(k.conversationId, conversationId, data)
                  /\ messages' = MessagesAfterSuccess(messages, k.userMessage,
                                                      AssistantMessage(data, now))
                  /\ error' = error
             ELSE /\ error' = "Failed to send message. Please try again."
                  /\ messages' = MessagesAfterFailure(messages, k.userMessage)
                  /\ conversationId' = conversationId
          /\ isLoading' = LoadingAfter(ok)
          /\ pending' = SubSeq(pending, 1, i - 1) \o SubSeq(pending, i + 1, Len(pending))
          /\ chatEvent' = [op |-> "resolve", ok |-> ok,
                           userMessage |-> k.userMessage,
                           lenBefore |-> k.lenBefore,
                           closureConversationId |-> k.conversationId,
                           data |-> data]
          /\ UNCHANGED <<input, showSqlFor, now, requests>>
    /\ UNCHANGED outsideChat

\* ids toggleSqlVisibility is called with: the greeting's id and an id the
\* responder may assign to a later message
ToggleIds == {"1", "m1"}

ToggledSet_exclusive(prev, messageId) ==
    IF messageId \in prev THEN {} ELSE {messageId}

ToggledSet_addOnly(prev, messageId) == prev \cup {messageId}

\* the updater passed to setShowSqlFor
ToggledSet(prev, messageId) ==
    IF messageId \in prev THEN prev \ {messageId} ELSE prev \cup {messageId}

\* toggleSqlVisibility(messageId)
ToggleSqlVisibility(messageId) ==
    /\ showSqlFor' = ToggledSet(showSqlFor, messageId)
    /\ LET again == chatEvent.op = "toggleSql" /\ chatEvent.id = messageId
       IN chatEvent' = [op |-> "toggleSql", id |-> messageId,
                        before |-> showSqlFor,
                        known |-> \E i \in 1..Len(messages) : messages[i].id = messageId,
                        again |-> again,
                        beforeFirst |-> IF again THEN chatEvent.before ELSE showSqlFor]
    /\ UNCHANGED <<messages, input, isLoading, conversationId, error,
                   now, pending, requests>>
    /\ UNCHANGED outsideChat

ChatNext ==
    \/ Tick
    \/ \E t \in Texts : TypeInput(t)
    \/ \E q \in suggestedQuestions : ClickSuggestion(q)
    \/ SendMessage
    \/ \E i \in 1..Len(pending), data \in Responses : Resolve(i, data)

(***************************************************************************)
(* Fleet map selection: ProperFleetMap (unnamed/part_002), WorkingFleetMap *)
(* (unnamed/part_000) and InteractiveFleetMap (unnamed/part_003)           *)
(***************************************************************************)
\* the hard-coded farm list, identical in the three components
windFarms ==
    << [id |-> "tx-panhandle", lat |-> 352, lng |-> -1018, status |-> "optimal"],
       [id |-> "ia-corn",      lat |-> 420, lng |-> -935,  status |-> "optimal"],
       [id |-> "ca-tehachapi", lat |-> 351, lng |-> -1183, status |-> "optimal"],
       [id |-> "wy-medicine",  lat |-> 419, lng |-> -1063, status |-> "optimal"],
       [id |-> "ok-corridor",  lat |-> 355, lng |-> -985,  status |-> "optimal"],
       [id |-> "il-prairie",   lat |-> 408, lng |-> -894,  status |-> "moderate"] >>

Farms == { windFarms[i] : i \in DOMAIN windFarms }
FarmIds == { f.id : f \in Farms }

\* windFarms.find(f => f.id === selectedFarm)
selectedFarmData ==
    IF \E f \in Farms : f.id = selectedFarm
    THEN CHOOSE f \in Farms : f.id = selectedFarm
    ELSE NULL

\* [39.5, -98.5] at zoom 4: the whole-US overview
OverviewCenter == <<395, -985>>
OverviewZoom == 4
\* zoom used when a farm is selected
FarmZoom == 7
\* marker icon sizes
DefaultIconSize == 30
SelectedIconSize == 40

Variants == {"ProperFleetMap", "WorkingFleetMap", "InteractiveFleetMap"}
ToggleVariants == {"ProperFleetMap", "InteractiveFleetMap"}

\* the last two clicks, newest last
Remember(c) == IF Len(clicks) < 2 THEN Append(clicks, c) ELSE <<clicks[2], c>>

Click(farm, via, post) ==
    [farm |-> farm.id, via |-> via, pre |-> selectedFarm, post |-> post]

MapInitFor(vs) ==
    /\ variant \in vs
    /\ selectedFarm = NULL
    /\ mapCenter = OverviewCenter
    /\ mapZoom = OverviewZoom
    /\ markerIcons = [id \in FarmIds |-> DefaultIconSize]
    /\ mapReady = FALSE
    /\ clicks = <<>>

ProperHandleFarmClick_selectOnly(farm, via) ==
    /\ variant = "ProperFleetMap"
    /\ selectedFarm' = farm.id
    /\ mapCenter' = <<farm.lat, farm.lng>>
    /\ mapZoom' = FarmZoom
    /\ clicks' = Remember(Click(farm, via, selectedFarm'))
    /\ UNCHANGED <<variant, markerIcons, mapReady>>
    /\ UNCHANGED outsideMap

ProperHandleFarmClick_clearsOther(farm, via) ==
    /\ variant = "ProperFleetMap"
    /\ selectedFarm' = IF selectedFarm # NULL THEN NULL ELSE farm.id
    /\ IF selectedFarm = NULL
       THEN mapCenter' = <<farm.lat, farm.lng>> /\ mapZoom' = FarmZoom
       ELSE mapCenter' = OverviewCenter /\ mapZoom' = OverviewZoom
    /\ clicks' = Remember(Click(farm, via, selectedFarm'))
    /\ UNCHANGED <<variant, markerIcons, mapReady>>
    /\ UNCHANGED outsideMap

ProperHandleFarmClick_noReset(farm, via) ==
    /\ variant = "ProperFleetMap"
    /\ selectedFarm' = IF farm.id = selectedFarm THEN NULL ELSE farm.id
    /\ IF farm.id # selectedFarm
       THEN mapCenter' = <<farm.lat, farm.lng>> /\ mapZoom' = FarmZoom
       ELSE UNCHANGED <<mapCenter, mapZoom>>
    /\ clicks' = Remember(Click(farm, via, selectedFarm'))
    /\ UNCHANGED <<variant, markerIcons, mapReady>>
    /\ UNCHANGED outsideMap

\* ProperFleetMap.handleFarmClick, called by the Marker click handler and
\* the card onClick, both re-bound on every render
ProperHandleFarmClick(farm, via) ==
    /\ variant = "ProperFleetMap"
    /\ selectedFarm' = IF farm.id = selectedFarm THEN NULL ELSE farm.id
    /\ IF farm.id # selectedFarm
       THEN mapCenter' = <<farm.lat, farm.lng>> /\ mapZoom' = FarmZoom
       ELSE mapCenter' = OverviewCenter /\ mapZoom' = OverviewZoom
    /\ clicks' = Remember(Click(farm, via, selectedFarm'))
    /\ UNCHANGED <<variant, markerIcons, mapReady>>
    /\ UNCHANGED outsideMap

\* InteractiveFleetMap marker button and card onClick
InteractiveClick(farm, via) ==
    /\ variant = "InteractiveFleetMap"
    /\ selectedFarm' = IF farm.id = selectedFarm THEN NULL ELSE farm.id
    /\ clicks' = Remember(Click(farm, via, selectedFarm'))
    /\ UNCHANGED <<variant, mapCenter, mapZoom, markerIcons, mapReady>>
    /\ UNCHANGED outsideMap

\* WorkingFleetMap mount effect: creates the Leaflet map and the markers.
\* React runs it before it dispatches the first click.
WorkingMount ==
    /\ variant = "WorkingFleetMap"
    /\ ~mapReady
    /\ mapReady' = TRUE
    /\ mapCenter' = OverviewCenter
    /\ mapZoom' = OverviewZoom
    /\ markerIcons' = [id \in FarmIds |-> DefaultIconSize]
    /\ UNCHANGED <<variant, selectedFarm, clicks>>
    /\ UNCHANGED outsideMap

WorkingHandleFarmClick_incremental(farm, sel, via) ==
    /\ variant = "WorkingFleetMap"
    /\ mapReady
    /\ selectedFarm' = IF farm.id = sel THEN NULL ELSE farm.id
    /\ IF farm.id # sel
       THEN /\ mapCenter' = <<farm.lat, farm.lng>>
            /\ mapZoom' = FarmZoom
            /\ markerIcons' = [id \in FarmIds |->
                                 IF id = farm.id THEN SelectedIconSize
                                                 ELSE markerIcons[id]]
       ELSE /\ mapCenter' = OverviewCenter
            /\ mapZoom' = OverviewZoom
            /\ markerIcons' = [id \in FarmIds |-> DefaultIconSize]
    /\ clicks' = Remember(Click(farm, via, selectedFarm'))
    /\ UNCHANGED <<variant, mapReady>>
    /\ UNCHANGED outsideMap

\* WorkingFleetMap.handleFarmClick as seen by a closure whose selectedFarm
\* is sel
WorkingHandleFarmClick(farm, sel, via) ==
    /\ variant = "WorkingFleetMap"
    /\ mapReady
    /\ selectedFarm' = IF farm.id = sel THEN NULL ELSE farm.id
    /\ IF farm.id # sel
       THEN /\ mapCenter' = <<farm.lat, farm.lng>>
            /\ mapZoom' = FarmZoom
            /\ markerIcons' = [id \in FarmIds |->
                                 IF id = farm.id THEN SelectedIconSize
                                                 ELSE DefaultIconSize]
       ELSE /\ mapCenter' = OverviewCenter
            /\ mapZoom' = OverviewZoom
            /\ markerIcons' = [id \in FarmIds |-> DefaultIconSize]
    /\ clicks' = Remember(Click(farm, via, selectedFarm'))
    /\ UNCHANGED <<variant, mapReady>>
    /\ UNCHANGED outsideMap

\* marker.on('click', ...) registered by the mount effect: it calls the
\* handleFarmClick of the first render, where selectedFarm is null
WorkingMarkerClick(farm) == WorkingHandleFarmClick(farm, NULL, "marker")

\* card onClick, re-bound on every render
WorkingCardClick(farm) == WorkingHandleFarmClick(farm, selectedFarm, "card")

\* center and zoom the component shows
viewCenter ==
    IF variant = "InteractiveFleetMap"
    THEN IF selectedFarmData # NULL
         THEN <<selectedFarmData.lat, selectedFarmData.lng>>
         ELSE OverviewCenter
    ELSE mapCenter

viewZoom ==
    IF variant = "InteractiveFleetMap"
    THEN IF selectedFarmData # NULL THEN FarmZoom ELSE OverviewZoom
    ELSE mapZoom

createCustomIcon_neverSelected(status, isSelected) == DefaultIconSize

\* ProperFleetMap.createCustomIcon: the icon size it picks
createCustomIcon(status, isSelected) ==
    IF isSelected THEN SelectedIconSize ELSE DefaultIconSize

\* InteractiveFleetMap marker: w-14 h-14 with ring and ping when selected,
\* w-10 h-10 otherwise (Tailwind: 56 px and 40 px)
InteractiveMarkerSize(farm) == IF selectedFarm = farm.id THEN 56 ELSE 40

\* whether the marker of farm is drawn in the emphasized (larger, pulsing) style
Emphasized(farm) ==
    CASE variant = "ProperFleetMap" ->
             createCustomIcon(farm.status, farm.id = selectedFarm) = SelectedIconSize
      [] variant = "InteractiveFleetMap" -> InteractiveMarkerSize(farm) = 56
      [] variant = "WorkingFleetMap" -> markerIcons[farm.id] = SelectedIconSize

EmphasizedFarms == { f.id : f \in { g \in Farms : Emphasized(g) } }

MapNext ==
    \/ \E f \in Farms, via \in {"marker", "card"} : ProperHandleFarmClick(f, via)
    \/ \E f \in Farms, via \in {"marker", "card"} : InteractiveClick(f, via)
    \/ WorkingMount
    \/ \E f \in Farms : WorkingMarkerClick(f)
    \/ \E f \in Farms : WorkingCardClick(f)

\* arguments handleFarmClick can be called with that name no entry of
\* windFarms
UnknownFarms ==
    { [id |-> "no-such-farm", lat |-> 100, lng |-> -200, status |-> "optimal"] }

\* ProperFleetMap and WorkingFleetMap with handleFarmClick also called
\* directly, with any farmId
MapApiNext ==
    \/ \E f \in Farms, via \in {"marker", "card"} : ProperHandleFarmClick(f, via)
    \/ \E f \in UnknownFarms : ProperHandleFarmClick(f, "call")
    \/ WorkingMount
    \/ \E f \in Farms : WorkingMarkerClick(f)
    \/ \E f \in Farms : WorkingCardClick(f)
    \/ \E f \in UnknownFarms : WorkingHandleFarmClick(f, selectedFarm, "call")

(***************************************************************************)
(* Select-only maps: SimpleFleetMap (unnamed/part_001) and FleetMap        *)
(* (client/src/components/FleetMap.tsx)                                    *)
(***************************************************************************)
SelectOnlyVariants == {"SimpleFleetMap", "FleetMap"}

SimpleSelect_toggles(farm, via) ==
    /\ variant = "SimpleFleetMap"
    /\ selectedFarm' = IF farm.id = selectedFarm THEN NULL ELSE farm.id
    /\ clicks' = Remember(Click(farm, via, selectedFarm'))
    /\ UNCHANGED <<variant, mapCenter, mapZoom, markerIcons, mapReady>>
    /\ UNCHANGED outsideMap

\* SimpleFleetMap marker and card: onClick={() => setSelectedFarm(farm.id)}
SimpleSelect(farm, via) ==
    /\ variant = "SimpleFleetMap"
    /\ selectedFarm' = farm.id
    /\ clicks' = Remember(Click(farm, via, selectedFarm'))
    /\ UNCHANGED <<variant, mapCenter, mapZoom, markerIcons, mapReady>>
    /\ UNCHANGED outsideMap

\* {selectedFarm && <button onClick={() => setSelectedFarm(null)}>}
ViewAllFarmsOffered == variant = "SimpleFleetMap" /\ Truthy(selectedFarm)

\* the 'View All Farms' button of SimpleFleetMap
ViewAllFarms ==
    /\ ViewAllFarmsOffered
    /\ selectedFarm' = NULL
    /\ clicks' = Remember([farm |-> NULL, via |-> "viewAll",
                           pre |-> selectedFarm, post |-> NULL])
    /\ UNCHANGED <<variant, mapCenter, mapZoom, markerIcons, mapReady>>
    /\ UNCHANGED outsideMap

\* FleetMap Marker eventHandlers: click: () => setSelectedFarm(farm.id)
FleetMapMarkerClick(farm) ==
    /\ variant = "FleetMap"
    /\ selectedFarm' = farm.id
    /\ clicks' = Remember(Click(farm, "marker", selectedFarm'))
    /\ UNCHANGED <<variant, mapCenter, mapZoom, markerIcons, mapReady>>
    /\ UNCHANGED outsideMap

SelectOnlyNext ==
    \/ \E f \in Farms, via \in {"marker", "card"} : SimpleSelect(f, via)
    \/ ViewAllFarms
    \/ \E f \in Farms : FleetMapMarkerClick(f)

(***************************************************************************)
(* TurbineFleetDashboard (unnamed/part_004): the polling effect            *)
(***************************************************************************)
\* the four datasets in the order fetchData requests them
Endpoints == <<"kpis", "assistantSummary", "energyData", "turbines">>
Datasets == { Endpoints[i] : i \in 1..Len(Endpoints) }

\* how one awaited fetch can end: response.ok with a body that parses;
\* response.ok false; fetch() or response.json() rejecting
FetchOutcomes == {"ok", "not_ok", "throws"}

\* the four useState values, by dataset; 0 is the initial null / []
Stored ==
    [d \in Datasets |->
        CASE d = "kpis" -> kpis
          [] d = "assistantSummary" -> assistantSummary
          [] d = "energyData" -> energyData
          [] d = "turbines" -> turbines]

DashInit ==
    /\ dashPhase = "rendered"
    /\ kpis = 0
    /\ assistantSummary = 0
    /\ energyData = 0
    /\ turbines = 0
    /\ cycles = <<>>
    /\ latest = [d \in Datasets |-> 0]
    /\ dashEvent = [op |-> "render"]

\* a call of fetchData: it runs up to its first await
StartCycle(cs) == Append(cs, [at |-> 1, state |-> "awaiting"])

\* the effect: fetchData(); setInterval(fetchData, 30000)
DashMount ==
    /\ dashPhase = "rendered"
    /\ dashPhase' = "mounted"
    /\ cycles' = StartCycle(cycles)
    /\ dashEvent' = [op |-> "mount"]
    /\ UNCHANGED <<kpis, assistantSummary, energyData, turbines, latest>>
    /\ UNCHANGED outsideDash

\* the interval timer calls fetchData, whatever earlier calls are doing
IntervalFires ==
    /\ dashPhase = "mounted"
    /\ Len(cycles) < MaxCycles
    /\ cycles' = StartCycle(cycles)
    /\ dashEvent' = [op |-> "interval"]
    /\ UNCHANGED <<dashPhase, kpis, assistantSummary, energyData, turbines, latest>>
    /\ UNCHANGED outsideDash

\* the effect's cleanup: clearInterval(interval)
DashUnmount ==
    /\ dashPhase = "mounted"
    /\ dashPhase' = "unmounted"
    /\ dashEvent' = [op |-> "unmount"]
    /\ UNCHANGED <<kpis, assistantSummary, energyData, turbines, cycles, latest>>
    /\ UNCHANGED outsideDash

CycleAfter_notOkAborts(cyc, kind) ==
    IF kind # "ok" THEN [cyc EXCEPT !.state = "aborted"]
    ELSE IF cyc.at = Len(Endpoints) THEN [cyc EXCEPT !.state = "done"]
    ELSE [cyc EXCEPT !.at = @ + 1]

\* where fetchData goes after an awaited fetch: into the catch block, past
\* the last endpoint, or on to the next fetch
CycleAfter(cyc, kind) ==
    IF kind = "throws" THEN [cyc EXCEPT !.state = "aborted"]
    ELSE IF cyc.at = Len(Endpoints) THEN [cyc EXCEPT !.state = "done"]
    ELSE [cyc EXCEPT !.at = @ + 1]

\* if (response.ok) { const data = await response.json(); setX(data) }
\* a state update of an unmounted component is dropped
StoredAfter(cur, d, target, c, kind) ==
    IF kind = "ok" /\ d = target /\ dashPhase # "unmounted" THEN c ELSE cur

\* the fetch awaited by cycle c settles and fetchData runs to its next await
FetchSettles(c, kind) ==
    /\ c \in 1..Len(cycles)
    /\ cycles[c].state = "awaiting"
    /\ LET d == Endpoints[cycles[c].at]
       IN /\ kpis' = StoredAfter(kpis, d, "kpis", c, kind)
          /\ assistantSummary' =
                StoredAfter(assistantSummary, d, "assistantSummary", c, kind)
          /\ energyData' = StoredAfter(energyData, d, "energyData", c, kind)
          /\ turbines' = StoredAfter(turbines, d, "turbines", c, kind)
          /\ latest' = IF kind = "ok" /\ dashPhase # "unmounted" /\ c > latest[d]
                       THEN [latest EXCEPT ![d] = c] ELSE latest
          /\ dashEvent' = [op |-> "settle", cycle |-> c, at |-> cycles[c].at,
                           kind |-> kind]
    /\ cycles' = [cycles EXCEPT ![c] = CycleAfter(@, kind)]
    /\ UNCHANGED dashPhase
    /\ UNCHANGED outsideDash

PollNext ==
    \/ DashMount
    \/ IntervalFires
    \/ DashUnmount
    \/ \E c \in 1..Len(cycles), kind \in FetchOutcomes : FetchSettles(c, kind)

(***************************************************************************)
(* NotificationsDropdown (client/src/components/NotificationsDropdown.tsx) *)
(***************************************************************************)
initialNotifications ==
    << [id |-> "1", type |-> "warning", read |-> FALSE],
       [id |-> "2", type |-> "error", read |-> FALSE],
       [id |-> "3", type |-> "success", read |-> FALSE],
       [id |-> "4", type |-> "info", read |-> TRUE],
       [id |-> "5", type |-> "warning", read |-> TRUE],
       [id |-> "6", type |-> "success", read |-> TRUE],
       [id |-> "7", type |-> "info", read |-> TRUE] >>

\* ids markAsRead is called with: those of the seeded list and one that
\* names no notification
NotificationIds == { initialNotifications[i].id : i \in 1..Len(initialNotifications) }
                       \cup {"99"}

\* notifications.filter(n => !n.read).length
UnreadCount(ns) == Cardinality({ i \in 1..Len(ns) : ~ns[i].read })

NotifInit ==
    /\ notifications = initialNotifications
    /\ notifEvent = [op |-> "render"]

MarkedAsRead_toggles(prev, id) ==
    [i \in 1..Len(prev) |->
        IF prev[i].id = id THEN [prev[i] EXCEPT !.read = ~@] ELSE prev[i]]

\* prev.map(n => n.id === id ? { ...n, read: true } : n)
MarkedAsRead(prev, id) ==
    [i \in 1..Len(prev) |->
        IF prev[i].id = id THEN [prev[i] EXCEPT !.read = TRUE] ELSE prev[i]]

\* prev.map(n => ({ ...n, read: true }))
AllMarkedAsRead(prev) ==
    [i \in 1..Len(prev) |-> [prev[i] EXCEPT !.read = TRUE]]

\* markAsRead(id)
MarkAsRead(id) ==
    /\ notifications' = MarkedAsRead(notifications, id)
    /\ notifEvent' = [op |-> "markAsRead", id |-> id, before |-> notifications,
                     prior |-> notifEvent.op]
    /\ UNCHANGED outsideNotif

\* markAllAsRead()
MarkAllAsRead ==
    /\ notifications' = AllMarkedAsRead(notifications)
    /\ notifEvent' = [op |-> "markAllAsRead", id |-> NULL, before |-> notifications,
                     prior |-> notifEvent.op]
    /\ UNCHANGED outsideNotif

\* clearAll()
ClearAll ==
    /\ notifications' = <<>>
    /\ notifEvent' = [op |-> "clearAll", id |-> NULL, before |-> notifications,
                     prior |-> notifEvent.op]
    /\ UNCHANGED outsideNotif

NotifNext ==
    \/ \E id \in NotificationIds : MarkAsRead(id)
    \/ MarkAllAsRead
    \/ ClearAll

(***************************************************************************)
(* Specifications                                                          *)
(***************************************************************************)
\* the chat panel alone
ChatSpecInit == ChatInit /\ MapInitFor({"ProperFleetMap"})
                /\ DashInit /\ NotifInit
ChatSpec == ChatSpecInit /\ [][ChatNext]_vars

\* any one of the three map components
MapSpecInit == ChatInit /\ MapInitFor(Variants)
               /\ DashInit /\ NotifInit
MapSpec == MapSpecInit /\ [][MapNext]_vars

\* the chat panel with the "View SQL Query" toggles; showSqlFor never
\* depends on Date.now(), so the clock keeps its mount reading here
RevealNext ==
    \/ \E t \in Texts : TypeInput(t)
    \/ \E q \in suggestedQuestions : ClickSuggestion(q)
    \/ SendMessage
    \/ \E i \in 1..Len(pending), data \in Responses : Resolve(i, data)
    \/ \E id \in ToggleIds : ToggleSqlVisibility(id)

RevealSpec == ChatSpecInit /\ [][RevealNext]_vars

\* the two handleFarmClick components, called with known and unknown ids
MapApiSpecInit == ChatInit /\ MapInitFor({"ProperFleetMap", "WorkingFleetMap"})
                  /\ DashInit /\ NotifInit
MapApiSpec == MapApiSpecInit /\ [][MapApiNext]_vars

\* either of the two select-only map components
SelectOnlySpecInit == ChatInit /\ MapInitFor(SelectOnlyVariants)
                      /\ DashInit /\ NotifInit
SelectOnlySpec == SelectOnlySpecInit /\ [][SelectOnlyNext]_vars

\* the dashboard's polling
PollSpecInit == ChatInit /\ MapInitFor({"ProperFleetMap"}) /\ DashInit /\ NotifInit
PollSpec == PollSpecInit /\ [][PollNext]_vars

\* the notifications menu, its handlers called in any order
NotifSpecInit == ChatInit /\ MapInitFor({"ProperFleetMap"}) /\ DashInit /\ NotifInit
NotifSpec == NotifSpecInit /\ [][NotifNext]_vars

\* fetch settles: the promise awaited by sendMessage resolves or rejects
RequestCompletes == \E i \in 1..Len(pending), data \in Responses : Resolve(i, data)

\* the chat panel when every issued request eventually completes
ChatFairSpec == ChatSpec /\ WF_vars(RequestCompletes)

(***************************************************************************)
(* Properties of GenieChat                                                 *)
(***************************************************************************)
\* what a rejected sendMessage must leave alone
ChatProgramState ==
    <<messages, input, isLoading, conversationId, error, showSqlFor, pending, requests>>

UserMessages == { i \in 1..Len(messages) : messages[i].sender = "user" }

\* C1: at most one send request is outstanding; a sendMessage invoked while
\* isLoading appends nothing, issues no request and changes neither
\* isLoading, error nor conversationId; input and send button are disabled
\* while isLoading.
C1_OneOutstandingSend ==
    /\ [](Len(pending) <= 1)
    /\ [](isLoading => InputDisabled /\ SendButtonDisabled)
    /\ [][(isLoading /\ SendMessage) => UNCHANGED ChatProgramState]_vars

C1_Witness ==
    /\ chatEvent.op = "sendMessage"
    /\ chatEvent.wasLoading
    /\ isLoading
    /\ Len(pending) = 1

\* C2: after an accepted send whose request succeeds the list is exactly 2
\* longer than before the call: the user message with status 'sent', then one
\* assistant message carrying the response's content, sql_query and
\* query_results; isLoading is false.
C2_SuccessGrowsByTwo ==
    (chatEvent.op = "resolve" /\ chatEvent.ok) =>
        LET n == chatEvent.lenBefore
        IN /\ Len(messages) = n + 2
           /\ messages[n + 1] = [chatEvent.userMessage EXCEPT !.status = "sent"]
           /\ messages[n + 1].sender = "user"
           /\ messages[n + 2].sender = "assistant"
           /\ messages[n + 2].content = chatEvent.data.content
           /\ messages[n + 2].sql = chatEvent.data.sql_query
           /\ messages[n + 2].results = chatEvent.data.query_results
           /\ isLoading = FALSE

C2_Witness ==
    /\ chatEvent.op = "resolve"
    /\ chatEvent.ok
    /\ chatEvent.lenBefore > 1
    /\ chatEvent.data.sql_query = "SELECT"

\* C3: after an accepted send whose request fails the list is exactly 1
\* longer than before the call, its last element is the user message with
\* status 'error', no assistant message was added, error is a non-empty
\* string and isLoading is false.
C3_FailureGrowsByOne ==
    (chatEvent.op = "resolve" /\ ~chatEvent.ok) =>
        LET n == chatEvent.lenBefore
        IN /\ Len(messages) = n + 1
           /\ messages[n + 1] = [chatEvent.userMessage EXCEPT !.status = "error"]
           /\ messages[n + 1].sender = "user"
           /\ Truthy(error)
           /\ isLoading = FALSE

C3_Witness ==
    /\ chatEvent.op = "resolve"
    /\ ~chatEvent.ok
    /\ chatEvent.data.kind = "bad_json"
    /\ chatEvent.lenBefore > 1

\* C4: the message list is append-only: no step shortens it, and every
\* message keeps its position, id, content and sender; only the status of a
\* user message may change.
C4_AppendOnly ==
    [][/\ Len(messages') >= Len(messages)
       /\ \A i \in 1..Len(messages) :
            /\ [messages'[i] EXCEPT !.status = messages[i].status] = messages[i]
            /\ messages'[i].status # messages[i].status
                 => messages[i].sender = "user"]_vars

C4_Witness ==
    /\ Len(messages) >= 4
    /\ chatEvent.op = "resolve"
    /\ \E i \in UserMessages : messages[i].status = "error"
    /\ \E i \in UserMessages : messages[i].status = "sent"

\* C5: a user message's status only moves from 'sending' to 'sent' or from
\* 'sending' to 'error', and never changes afterwards.
C5_StatusMonotone ==
    [][\A i \in 1..Len(messages) :
          /\ i <= Len(messages')
          /\ messages'[i].status # messages[i].status
               => /\ messages[i].status = "sending"
                  /\ messages'[i].status \in {"sent", "error"}]_vars

C5_Witness ==
    /\ chatEvent.op = "resolve"
    /\ Cardinality(UserMessages) >= 2
    /\ \A i \in UserMessages : messages[i].status \in {"sent", "error"}
    /\ \E i, j \in UserMessages : messages[i].status # messages[j].status

\* C6: isLoading is true exactly while a request is outstanding, and every
\* accepted send eventually reaches isLoading = false once its request
\* completes.
C6_LoadingReleased ==
    /\ [](isLoading <=> Len(pending) > 0)
    /\ (isLoading ~> ~isLoading)

C6_Witness ==
    /\ chatEvent.op = "resolve"
    /\ ~chatEvent.ok
    /\ ~isLoading
    /\ pending = <<>>

\* C7: sendMessage with empty or whitespace-only input changes nothing: no
\* message, no request, and isLoading, error and conversationId as before.
C7_BlankSendIsNoOp ==
    [][(Trim(input) = <<>> /\ SendMessage) => UNCHANGED ChatProgramState]_vars

C7_Witness ==
    /\ chatEvent.op = "sendMessage"
    /\ ~chatEvent.accepted
    /\ ~chatEvent.wasLoading
    /\ chatEvent.text = <<" ">>

\* C8 as stated: a send that succeeds while conversationId is none leaves
\* conversationId equal to the conversation_id of the response.
C8_AdoptsReturnedId ==
    (/\ chatEvent.op = "resolve"
     /\ chatEvent.ok
     /\ chatEvent.closureConversationId = NULL)
        => conversationId = chatEvent.data.conversation_id

\* C8 amended: a send that succeeds while conversationId is none adopts the
\* response's conversation_id when that is a non-empty string and leaves
\* conversationId none otherwise; from the seeded greeting, one successful
\* send answered with conversation_id "c1" gives 3 messages and
\* conversationId = "c1".
C8_AdoptsNonEmptyId ==
    (/\ chatEvent.op = "resolve"
     /\ chatEvent.ok
     /\ chatEvent.closureConversationId = NULL)
        => /\ conversationId =
                IF Truthy(chatEvent.data.conversation_id)
                THEN chatEvent.data.conversation_id ELSE NULL
           /\ (chatEvent.lenBefore = 1 /\ chatEvent.data.conversation_id = "c1")
                => (Len(messages) = 3 /\ conversationId = "c1")

C8_Witness ==
    /\ chatEvent.op = "resolve"
    /\ chatEvent.ok
    /\ chatEvent.closureConversationId = NULL
    /\ chatEvent.lenBefore = 1
    /\ chatEvent.data.conversation_id = "c1"
    /\ Len(messages) = 3
    /\ conversationId = "c1"

(***************************************************************************)
(* Properties of the fleet-map selection                                   *)
(***************************************************************************)
\* the last two clicks were on the same farm
SameFarmTwice == Len(clicks) = 2 /\ clicks[1].farm = clicks[2].farm

\* the last two clicks were on two different farms
TwoFarmsInTurn == Len(clicks) = 2 /\ clicks[1].farm # clicks[2].farm

AtOverview == viewCenter = OverviewCenter /\ viewZoom = OverviewZoom

\* C9 as stated: in the toggling components, two clicks in succession on
\* the same farm return selectedFarm to its value before the first click,
\* whatever that was, and leave the view at the overview.
C9_DoubleToggleRestoresAny ==
    (variant \in ToggleVariants /\ SameFarmTwice)
        => (selectedFarm = clicks[1].pre /\ AtOverview)

\* C9 amended: in ProperFleetMap and InteractiveFleetMap, two clicks in
\* succession on the same farm, starting with no farm selected, end with no
\* farm selected and the view at the overview.
C9_DoubleToggleFromNone ==
    (variant \in ToggleVariants /\ SameFarmTwice /\ clicks[1].pre = NULL)
        => (selectedFarm = NULL /\ AtOverview)

C9_Witness ==
    /\ variant = "ProperFleetMap"
    /\ SameFarmTwice
    /\ clicks[1].pre = NULL
    /\ clicks[1].post = "tx-panhandle"
    /\ selectedFarm = NULL

\* C10: a click on farm A followed by a click on a different farm B leaves
\* B selected, whatever was selected before.
C10_OtherFarmOverrides ==
    TwoFarmsInTurn => selectedFarm = clicks[2].farm

C10_Witness ==
    /\ TwoFarmsInTurn
    /\ clicks[1].pre = clicks[2].farm
    /\ clicks[1].post = clicks[1].farm
    /\ selectedFarm = clicks[2].farm

\* the most recent click
LastClick == clicks[Len(clicks)]

\* C11 as stated: after any click on a farm L, L is the one and only farm
\* whose marker is emphasized.
C11_ClickedFarmEmphasized ==
    (variant \in ToggleVariants /\ clicks # <<>>)
        => EmphasizedFarms = {LastClick.farm}

\* C11 amended: after a click on a farm L that was not the selected farm,
\* L is the one and only farm whose marker is emphasized; every other marker
\* has the default style.
C11_NewlySelectedFarmEmphasized ==
    (clicks # <<>> /\ LastClick.pre # LastClick.farm)
        => EmphasizedFarms = {LastClick.farm}

C11_Witness ==
    /\ variant = "ProperFleetMap"
    /\ Len(clicks) = 2
    /\ LastClick.pre = clicks[1].farm
    /\ LastClick.farm = "il-prairie"
    /\ EmphasizedFarms = {"il-prairie"}

\* C12: in ProperFleetMap the stored view is a function of the selection:
\* the overview ([39.5, -98.5], 4) when nothing is selected, the selected
\* farm's position at zoom 7 otherwise; selecting "tx-panhandle" gives
\* [35.2, -101.8] at zoom 7 and selecting it again gives the overview.
C12_ViewFollowsSelection ==
    variant = "ProperFleetMap" =>
        /\ <<mapCenter, mapZoom>> =
              IF selectedFarm = NULL
              THEN <<OverviewCenter, OverviewZoom>>
              ELSE <<<<selectedFarmData.lat, selectedFarmData.lng>>, FarmZoom>>
        /\ selectedFarm = "tx-panhandle"
              => (mapCenter = <<352, -1018>> /\ mapZoom = 7)
        /\ (SameFarmTwice /\ clicks[1].pre = NULL)
              => (mapCenter = <<395, -985>> /\ mapZoom = 4)

C12_Witness ==
    /\ variant = "ProperFleetMap"
    /\ SameFarmTwice
    /\ clicks[1].farm = "tx-panhandle"
    /\ clicks[1].pre = NULL
    /\ clicks[1].post = "tx-panhandle"
    /\ selectedFarm = NULL
    /\ mapZoom = OverviewZoom

\* C13: two toggleSqlVisibility calls in succession with the same id leave
\* showSqlFor exactly as it was before the first, whether or not the id was
\* a member.
C13_DoubleToggleRestoresRevealSet ==
    (chatEvent.op = "toggleSql" /\ chatEvent.again)
        => showSqlFor = chatEvent.beforeFirst

C13_Witness ==
    /\ chatEvent.op = "toggleSql"
    /\ chatEvent.again
    /\ chatEvent.id = "m1"
    /\ "1" \in chatEvent.beforeFirst
    /\ "m1" \notin chatEvent.beforeFirst
    /\ "m1" \in chatEvent.before

MessageIds == { messages[i].id : i \in 1..Len(messages) }

UserMessageSeq == SelectSeq(messages, LAMBDA m : m.sender = "user")

\* C16: after a failed send the error banner is set, isLoading is false and
\* nothing is outstanding; a sendMessage with non-blank text is then accepted
\* at once; the component never issues a request of its own (one request per
\* user message); the retry appends a new user message and leaves the
\* errored one in place.
C16_FailureRecoverable ==
    /\ []((chatEvent.op = "resolve" /\ ~chatEvent.ok)
            => /\ Truthy(error)
               /\ ~isLoading
               /\ pending = <<>>
               /\ \A t \in Texts : Trim(t) # <<>> => ~Rejected(t, isLoading))
    /\ [](Truthy(error) => ~isLoading)
    /\ [](Len(requests) = Len(UserMessageSeq))
    /\ [][(SendMessage /\ messages' # messages)
            => /\ Len(messages') = Len(messages) + 1
               /\ SubSeq(messages', 1, Len(messages)) = messages
               /\ messages'[Len(messages')].sender = "user"
               /\ messages'[Len(messages')].status = "sending"]_vars

C16_Witness ==
    /\ chatEvent.op = "sendMessage"
    /\ chatEvent.accepted
    /\ Len(messages) >= 3
    /\ messages[Len(messages) - 1].status = "error"
    /\ messages[Len(messages)].status = "sending"

\* C17: in WorkingFleetMap a marker click on the farm that is selected
\* clears the selection, resets the view to the overview and leaves every
\* marker in the default style.
C17_MarkerClickOnSelectedClears ==
    (/\ variant = "WorkingFleetMap"
     /\ clicks # <<>>
     /\ LastClick.via = "marker"
     /\ LastClick.pre = LastClick.farm)
        => /\ selectedFarm = NULL
           /\ mapCenter = OverviewCenter
           /\ mapZoom = OverviewZoom
           /\ EmphasizedFarms = {}

\* C18: in WorkingFleetMap, once the map exists, the Leaflet state agrees
\* with selectedFarm after any clicks: a marker has the size-40 icon iff its
\* farm is selected, every farm marker carries an icon of one of the two
\* sizes, and the view is the selected farm at zoom 7 or the overview.
C18_ImperativeStateAgrees ==
    (variant = "WorkingFleetMap" /\ mapReady)
        => /\ DOMAIN markerIcons = FarmIds
           /\ \A f \in Farms :
                /\ markerIcons[f.id] \in {DefaultIconSize, SelectedIconSize}
                /\ markerIcons[f.id] = SelectedIconSize <=> f.id = selectedFarm
           /\ <<mapCenter, mapZoom>> =
                 IF selectedFarm = NULL
                 THEN <<OverviewCenter, OverviewZoom>>
                 ELSE <<<<selectedFarmData.lat, selectedFarmData.lng>>, FarmZoom>>

C18_Witness ==
    /\ variant = "WorkingFleetMap"
    /\ Len(clicks) = 2
    /\ clicks[1].via = "card"
    /\ clicks[2].via = "marker"
    /\ clicks[1].post # NULL
    /\ clicks[2].farm # clicks[1].farm
    /\ markerIcons[clicks[2].farm] = SelectedIconSize
    /\ markerIcons[clicks[1].farm] = DefaultIconSize

\* C19: once conversationId holds a value it never changes, whatever later
\* responses carry, and a failed send leaves it as it was.
C19_ConversationIdSetOnce ==
    [][/\ conversationId # NULL => conversationId' = conversationId
       /\ \A i \in 1..Len(pending), data \in Responses :
            (Resolve(i, data) /\ data.kind # "ok")
                => conversationId' = conversationId]_vars

C19_Witness ==
    /\ chatEvent.op = "resolve"
    /\ chatEvent.ok
    /\ chatEvent.closureConversationId = "c1"
    /\ chatEvent.data.conversation_id = "c2"
    /\ conversationId = "c1"

\* C20: every accepted send issues exactly one request; it carries the
\* trimmed text of its user message and the conversationId of the moment of
\* sending: null as long as no success has assigned one, the adopted id
\* from then on.
C20_RequestCarriesTextAndId ==
    /\ Len(requests) = Len(UserMessageSeq)
    /\ \A i \in 1..Len(requests) :
         /\ requests[i].content = UserMessageSeq[i].content
         /\ Trim(requests[i].content) = requests[i].content
         /\ requests[i].content # <<>>
         /\ requests[i].conversation_id \in {NULL, conversationId}
         /\ \A j \in i..Len(requests) :
              requests[i].conversation_id # NULL
                 => requests[j].conversation_id = requests[i].conversation_id
    /\ isLoading => requests[Len(requests)].conversation_id = conversationId
    /\ (chatEvent.op = "sendMessage" /\ chatEvent.accepted)
         => requests[Len(requests)].content = Trim(chatEvent.text)

C20_Witness ==
    /\ Len(requests) = 2
    /\ requests[1].conversation_id = NULL
    /\ requests[2].conversation_id = "c1"
    /\ isLoading
    /\ chatEvent.op = "sendMessage"
    /\ chatEvent.text = <<" ", "a", " ">>

\* C21: accepting a send clears the error: error is null while a send is
\* outstanding and after every successful send; it is set only by a failed
\* completion and stays set only until the next send is accepted, so while
\* it is set the last message is the errored user message.
C21_ErrorOnlyBetweenFailureAndNextSend ==
    /\ [](isLoading => error = NULL)
    /\ []((chatEvent.op = "resolve" /\ chatEvent.ok) => error = NULL)
    /\ [](error # NULL
            => /\ ~isLoading
               /\ messages[Len(messages)].sender = "user"
               /\ messages[Len(messages)].status = "error")
    /\ [][/\ (error = NULL /\ error' # NULL)
               => \E i \in 1..Len(pending), data \in Responses :
                     data.kind # "ok" /\ Resolve(i, data)
          /\ (error # NULL /\ error' = NULL)
               => (SendMessage /\ ~Rejected(input, isLoading))]_vars

C21_Witness ==
    /\ chatEvent.op = "resolve"
    /\ chatEvent.ok
    /\ Len(messages) = 4
    /\ messages[2].status = "error"
    /\ error = NULL

\* C22: the ids of the messages in the list are pairwise distinct.
C22_MessageIdsDistinct ==
    \A i, j \in 1..Len(messages) :
        i # j => messages[i].id # messages[j].id

\* C23: messages are in call order: the greeting first, user messages in
\* the order their sends were accepted (the order of the requests), every
\* assistant reply directly after the user message whose request produced
\* it, and nothing between the two.
C23_CallOrder ==
    /\ messages[1] = initialMessages[1]
    /\ Len(UserMessageSeq) = Len(requests)
    /\ \A i \in 1..Len(UserMessageSeq) :
         UserMessageSeq[i].content = requests[i].content
    /\ \A j \in 2..Len(messages) :
         /\ messages[j].sender = "assistant"
              => /\ messages[j - 1].sender = "user"
                 /\ messages[j - 1].status = "sent"
         /\ (messages[j].sender = "user" /\ messages[j].status = "sent")
              => /\ j < Len(messages)
                 /\ messages[j + 1].sender = "assistant"
         /\ (messages[j].sender = "user" /\ messages[j].status # "sent")
              => (j = Len(messages) \/ messages[j + 1].sender = "user")
    /\ (chatEvent.op = "resolve" /\ chatEvent.ok)
         => /\ Len(messages) = chatEvent.lenBefore + 2
            /\ messages[Len(messages) - 1] =
                  [chatEvent.userMessage EXCEPT !.status = "sent"]
            /\ messages[Len(messages)].sender = "assistant"
            /\ messages[Len(messages)].content = chatEvent.data.content
            /\ messages[Len(messages)].sql = chatEvent.data.sql_query

C23_Witness ==
    /\ Len(messages) = 5
    /\ messages[2].content = <<"q">>
    /\ messages[3].sender = "assistant"
    /\ messages[4].content = <<"a">>
    /\ messages[5].sender = "assistant"
    /\ messages[5].sql = "SELECT"

\* C24: toggleSqlVisibility(id) flips the membership of id in showSqlFor
\* and changes nothing else: no other id's membership, not the messages,
\* isLoading, error, conversationId or input, and no request is issued;
\* sendMessage and the completion of a request leave showSqlFor as it was.
C24_ToggleFrame ==
    [][/\ \A id \in ToggleIds :
            ToggleSqlVisibility(id)
               => /\ (id \in showSqlFor') <=> (id \notin showSqlFor)
                  /\ showSqlFor' \ {id} = showSqlFor \ {id}
                  /\ UNCHANGED <<messages, input, isLoading, conversationId,
                                 error, pending, requests>>
       /\ (\/ SendMessage
           \/ \E i \in 1..Len(pending), data \in Responses : Resolve(i, data))
            => showSqlFor' = showSqlFor]_vars

C24_Witness ==
    /\ chatEvent.op = "toggleSql"
    /\ chatEvent.id = "m1"
    /\ chatEvent.before = {"1"}
    /\ showSqlFor = {"1", "m1"}
    /\ isLoading
    /\ Len(messages) = 4

\* C26: at most one message has status 'sending'; one exists iff isLoading
\* is true; and it is the last message of the list.
C26_SendingIsLastAndLoading ==
    LET sending == { i \in 1..Len(messages) : messages[i].status = "sending" }
    IN /\ Cardinality(sending) <= 1
       /\ (sending # {}) <=> isLoading
       /\ sending \subseteq {Len(messages)}

C26_Witness ==
    /\ isLoading
    /\ Len(messages) = 3
    /\ messages[2].status = "error"
    /\ messages[3].status = "sending"

\* C30: the input is cleared when a send is accepted and not restored when
\* it fails: after a failed send the input is empty and the send button is
\* disabled, and the button becomes enabled again only by the user entering
\* text that is not blank.
C30_InputNotRestoredOnFailure ==
    /\ []((chatEvent.op = "sendMessage" /\ chatEvent.accepted)
            => input = <<>>)
    /\ []((chatEvent.op = "resolve" /\ ~chatEvent.ok)
            => /\ input = <<>>
               /\ SendButtonDisabled
               /\ Rejected(input, isLoading))
    /\ [][(error # NULL /\ SendButtonDisabled /\ ~SendButtonDisabled')
            => /\ Trim(input') # <<>>
               /\ \E t \in Texts : TypeInput(t)]_vars

C30_Witness ==
    /\ chatEvent.op = "resolve"
    /\ ~chatEvent.ok
    /\ chatEvent.userMessage.content = <<"a">>
    /\ input = <<>>
    /\ error # NULL

\* C25: in SimpleFleetMap and FleetMap a click on a farm's marker or card
\* sets selectedFarm to that farm, also when it is already selected, and
\* never clears it; in SimpleFleetMap selectedFarm returns to null only by
\* 'View All Farms', which is offered only while a farm is selected; in
\* FleetMap it never returns to null.
C25_SelectOnly ==
    /\ [](variant \in SelectOnlyVariants /\ selectedFarm \in FarmIds \cup {NULL})
    /\ []((clicks # <<>> /\ LastClick.via \in {"marker", "card"})
            => selectedFarm = LastClick.farm)
    /\ [][(selectedFarm # NULL /\ selectedFarm' = NULL)
            => /\ variant = "SimpleFleetMap"
               /\ ViewAllFarmsOffered
               /\ ViewAllFarms]_vars
    /\ [][(~ViewAllFarmsOffered /\ variant = "SimpleFleetMap")
            => ~ViewAllFarms]_vars

C25_Witness ==
    /\ Len(clicks) = 2
    /\ LastClick.via \in {"marker", "card"}
    /\ LastClick.pre = LastClick.farm
    /\ selectedFarm = LastClick.farm

(***************************************************************************)
(* Properties of TurbineFleetDashboard                                     *)
(***************************************************************************)
\* C27: for each of kpis, assistantSummary, energyData and turbines, the
\* stored value comes from the most recently started cycle that has
\* delivered that dataset: an earlier-started cycle never overwrites what a
\* later-started one stored.
C27_LaterCycleWins ==
    \A d \in Datasets : latest[d] # 0 => Stored[d] = latest[d]

\* C28: in a poll cycle a non-success response leaves every stored dataset
\* as it was and the cycle goes on to the next endpoint in the order kpis,
\* assistant summary, energy output, turbines; a thrown error ends the cycle
\* with every dataset left as it was; a usable response changes its own
\* dataset only; no outcome touches another cycle or the interval, which
\* goes on starting cycles while the component is mounted.
C28_CycleErrorHandling ==
    /\ [][\A c \in 1..Len(cycles), kind \in FetchOutcomes :
            FetchSettles(c, kind)
               => /\ kind = "not_ok"
                       => /\ UNCHANGED <<kpis, assistantSummary, energyData, turbines>>
                          /\ cycles'[c] =
                                IF cycles[c].at = Len(Endpoints)
                                THEN [at |-> cycles[c].at, state |-> "done"]
                                ELSE [at |-> cycles[c].at + 1, state |-> "awaiting"]
                  /\ kind = "throws"
                       => /\ UNCHANGED <<kpis, assistantSummary, energyData, turbines>>
                          /\ cycles'[c] = [at |-> cycles[c].at, state |-> "aborted"]
                  /\ kind = "ok"
                       => \A d \in Datasets \ {Endpoints[cycles[c].at]} :
                             Stored'[d] = Stored[d]
                  /\ \A o \in 1..Len(cycles) \ {c} : cycles'[o] = cycles[o]
                  /\ Len(cycles') = Len(cycles)
                  /\ dashPhase' = dashPhase]_vars
    /\ [][\A c \in 1..Len(cycles) :
            cycles[c].state # "awaiting" => cycles'[c] = cycles[c]]_vars
    /\ []((dashPhase = "mounted" /\ Len(cycles) < MaxCycles)
            => ENABLED IntervalFires)

C28_Witness ==
    /\ Len(cycles) = 2
    /\ cycles[1] = [at |-> 2, state |-> "aborted"]
    /\ kpis = 1
    /\ dashEvent = [op |-> "settle", cycle |-> 2, at |-> 1, kind |-> "not_ok"]
    /\ cycles[2] = [at |-> 2, state |-> "awaiting"]

(***************************************************************************)
(* Properties of NotificationsDropdown                                     *)
(***************************************************************************)
\* C29: no handler makes the list longer, raises the unread count or turns
\* a read notification unread; markAsRead(id) changes only the notification
\* with that id, and nothing when the id is absent or already read;
\* markAllAsRead leaves no unread notification and the list as long as it
\* was; clearAll leaves the list empty.
C29_NotificationsOnlyShrink ==
    [][/\ Len(notifications') <= Len(notifications)
       /\ UnreadCount(notifications') <= UnreadCount(notifications)
       /\ \A i \in 1..Len(notifications'), j \in 1..Len(notifications) :
            (notifications'[i].id = notifications[j].id /\ notifications[j].read)
               => notifications'[i].read
       /\ \A id \in NotificationIds :
            MarkAsRead(id)
               => /\ Len(notifications') = Len(notifications)
                  /\ \A i \in 1..Len(notifications) :
                       IF notifications[i].id = id
                       THEN notifications'[i] = [notifications[i] EXCEPT !.read = TRUE]
                       ELSE notifications'[i] = notifications[i]
                  /\ (\A i \in 1..Len(notifications) :
                         notifications[i].id = id => notifications[i].read)
                       => notifications' = notifications
       /\ MarkAllAsRead
            => /\ UnreadCount(notifications') = 0
               /\ Len(notifications') = Len(notifications)
               /\ \A i \in 1..Len(notifications) :
                    notifications'[i] = [notifications[i] EXCEPT !.read = TRUE]
       /\ ClearAll => notifications' = <<>>]_vars

C29_Witness ==
    /\ notifEvent.op = "markAsRead"
    /\ notifEvent.id = "2"
    /\ UnreadCount(notifEvent.before) = 2
    /\ UnreadCount(notifications) = 1
    /\ Len(notifications) = 7
    /\ notifications[2].read
    /\ ~notifications[3].read

====
